---- MODULE Spec2Model ----
(***************************************************************************)
(* State machine of the docu-backend service (src/app/main.py,             *)
(* src/app/models.py): the projects/pages tables, the external chat        *)
(* service and generative model, and the HTTP handlers as interleaved      *)
(* requests.  Coroutine handlers (async def) are cut at their awaits and   *)
(* run on one event loop: `running` is the coroutine between two awaits,   *)
(* `inflight` the suspended ones.  delete_project (a plain def) runs on a  *)
(* worker thread and may interleave anywhere.                              *)
(***************************************************************************)
EXTENDS Integers, Sequences, FiniteSets, Bags, TLC

\* ---------------------------------------------------------------- bounds
MaxReq == 2          \* coroutine handlers in flight at the same time
MaxProjects == 1     \* chat sessions opened, so projects created
MaxModelCalls == 2   \* calls issued to the generative model
MaxBulk == 1         \* generate_all_forms_for_project calls that dispatch
MaxBody == 3         \* characters between the markers of a checked response text

\* ------------------------------------------------------- texts and names
\* A text is a sequence of one-character strings.
WhiteSpace == {" ", "\n", "\t"}

StartsWith(s, p) == Len(s) >= Len(p) /\ SubSeq(s, 1, Len(p)) = p
EndsWith(s, p) == Len(s) >= Len(p) /\ SubSeq(s, Len(s) - Len(p) + 1, Len(s)) = p
\* s[k:] and s[:-k] of Python
DropPrefix(s, k) == IF k >= Len(s) THEN << >> ELSE SubSeq(s, k + 1, Len(s))
DropSuffix(s, k) == IF k >= Len(s) THEN << >> ELSE SubSeq(s, 1, Len(s) - k)

RECURSIVE LStrip(_)
LStrip(s) == IF s # << >> /\ Head(s) \in WhiteSpace THEN LStrip(Tail(s)) ELSE s
RECURSIVE RStrip(_)
RStrip(s) == IF s # << >> /\ s[Len(s)] \in WhiteSpace
             THEN RStrip(SubSeq(s, 1, Len(s) - 1)) ELSE s
\* str.strip()
Strip(s) == RStrip(LStrip(s))

\* str.lower() on the letters that occur in the modelled file names
LowerChar(c) == CASE c = "P" -> "p" [] c = "D" -> "d" [] c = "F" -> "f"
                  [] c = "A" -> "a" [] OTHER -> c
Lower(s) == [i \in 1..Len(s) |-> LowerChar(s[i])]

DotPdf == <<".", "p", "d", "f">>
\* file.filename.lower().endswith(".pdf")
IsPdfNameNoDot(name) == EndsWith(Lower(name), <<"p", "d", "f">>)
IsPdfName(name) == EndsWith(Lower(name), DotPdf)

\* The backquote character; it is named because a string literal cannot hold it.
Bq == "BQ"

FenceHtml == <<Bq, Bq, Bq, "h", "t", "m", "l">>
Fence == <<Bq, Bq, Bq>>
\* the fence stripping and trimming of a model response text
StripFences(text) ==
    LET a == IF StartsWith(text, FenceHtml) THEN DropPrefix(text, 7) ELSE text
        b == IF StartsWith(a, Fence) THEN DropPrefix(a, 3) ELSE a
        c == IF EndsWith(b, Fence) THEN DropSuffix(b, 3) ELSE b
    IN  Strip(c)

\* Optional column value: Absent is NULL/None, Some(t) a stored text.
Absent == << >>
Some(t) == <<t>>
\* Python truthiness of an optional text: None and "" are falsy
Truthy(h) == h # Absent /\ h[1] # << >>

\* ------------------------------------------------------------ PDF inputs
\* What the PDF codec does with an uploaded byte string: whether PdfReader
\* parses it, how many pages it has, the pages whose extract_text raises,
\* and the pages PdfWriter cannot re-emit.
Pdf(r, n, bt, uw) == [readable |-> r, np |-> n, badText |-> bt, unwritable |-> uw]
NoPdf == Pdf(FALSE, 0, {}, {})
\* two pages; PdfWriter raises on the second
Odd2 == Pdf(TRUE, 2, {}, {2})
\* two pages; extract_text raises on the second
BadText2 == Pdf(TRUE, 2, {2}, {})

Uploads ==
    { [filename |-> <<"a", ".", "p", "d", "f">>, content |-> Odd2],
      [filename |-> <<"A", ".", "P", "D", "F">>, content |-> BadText2],
      [filename |-> <<"c", ".", "p", "d", "f">>, content |-> NoPdf],
      [filename |-> <<"a", ".", "t", "x", "t">>, content |-> Odd2],
      [filename |-> <<"a", "p", "d", "f">>, content |-> Odd2] }

\* page.extract_text(): "t" for odd pages, nothing for even ones
ExtractText(pdf, i) == IF i % 2 = 1 THEN <<"t">> ELSE << >>

ProjIds == 1..MaxProjects
PageNums == 0..3

\* --------------------------------------------------- model responses
\* response.text of a response that has parts
Responses ==
    { <<"x">>,
      <<Bq, Bq, Bq, "h", "t", "m", "l", "\n", "y", "\n", Bq, Bq, Bq>>,
      <<Bq, Bq, Bq, "h", "t", "m", "l", Bq, Bq, Bq>> }

\* ------------------------------------------------------------------ state
VARIABLES
    projects,       \* rows of table projects
    pages,          \* rows of table pages
    nextProjectId,  \* projects.id sequence
    nextPageId,     \* pages.id sequence
    chatSessions,   \* sessions the chat service has opened
    modelCalls,     \* number of generate_content_async calls issued
    inflight,       \* bag of coroutines suspended at an await, with their locals
    running,        \* the coroutine that holds the event loop between awaits
    tasks,          \* bag of tasks the bulk dispatcher created, not yet run
    nBulk,          \* generate_all_forms_for_project calls that dispatched
    last,           \* the response just returned, until its client has it
    deleted,        \* history: ids of the projects delete_project removed
    fence           \* a response text and the html_content lines 266-273 make of it

vars == <<projects, pages, nextProjectId, nextPageId, chatSessions, modelCalls,
          inflight, running, tasks, nBulk, last, deleted, fence>>

dbVars == <<projects, pages, nextProjectId, nextPageId>>

\* A coroutine's position and locals.
Idle == [kind |-> "idle", pc |-> "idle", project_id |-> 0, page_number |-> 0,
         file |-> << >>, pdf |-> NoPdf, session |-> 0, db_project |-> 0,
         page_id |-> 0, loaded |-> Absent, task |-> FALSE]

\* A response: status code, the failure that led to it, and the body fields
\* and request parameters the properties below read.
NoResponse == [kind |-> "none", status |-> 0, fail |-> "", project_id |-> 0,
               page_number |-> 0, np |-> 0, file |-> << >>, html |-> Absent,
               source |-> "", task |-> FALSE, initiated |-> 0, details |-> {}]

Reply(kind, code, why) == [NoResponse EXCEPT !.kind = kind, !.status = code, !.fail = why]

\* No response text is under the fence stripping.
NoFence == [text |-> << >>, html_content |-> Absent]

Init ==
    /\ projects = {}
    /\ pages = {}
    /\ nextProjectId = 1
    /\ nextPageId = 1
    /\ chatSessions = {}
    /\ modelCalls = 0
    /\ inflight = EmptyBag
    /\ running = Idle
    /\ tasks = EmptyBag
    /\ nBulk = 0
    /\ last = NoResponse
    /\ deleted = {}
    /\ fence = NoFence

\* ------------------------------------------------------------- queries
\* db.query(Project).filter(Project.id == project_id).first()
ProjectById(id) == {p \in projects : p.id = id}
\* db.query(Page).filter(project_id == .., page_number == ..).first()
PageRows(pid, n) == {g \in pages : g.project_id = pid /\ g.page_number = n}
PagesOf(pid) == {g \in pages : g.project_id = pid}

Suspended == BagToSet(inflight)
Suspend(c) == inflight (+) SetToBag({c})
Resume(c) == inflight (-) SetToBag({c})
Active == BagCardinality(inflight) + (IF running = Idle THEN 0 ELSE 1)
\* The server takes one more request that will suspend.
CanAccept == Active < MaxReq
\* create_project calls waiting for the chat service to open a session
Creating == Cardinality({c \in Suspended : c.pc = "c_new"})

\* --------------------------------------------------------- create_project
\* Outcomes of POST /chat/new as the handler sees them.
ChatNewOutcomes == {"ok", "request_error", "status_404", "status_503", "bad_json", "no_id"}
ChatNewFailures == ChatNewOutcomes \ {"ok"}
\* Outcomes of POST /chat/{id}/message.
ChatUploadOutcomes == {"ok", "upload_request_error", "upload_status_error", "upload_other"}
ChatUploadFailures == ChatUploadOutcomes \ {"ok"}

\* The HTTPException the inner try block raises for a failed session creation
\* (lines 85-92).
InnerChatStatus(out) ==
    CASE out = "request_error" -> 503
      [] out = "status_404" -> 404
      [] out = "status_503" -> 503
      [] OTHER -> 500

\* The outer handler (lines 155-159): except Exception -> rollback,
\* HTTPException(500), whatever was raised inside.
CreateFailStatusPassThrough(inner) == inner
CreateFailStatus(inner) == 500

\* What create_project answers once the upload attempt is over (lines 140-154).
UploadDoneStatusStrict(out) == IF out = "ok" THEN 200 ELSE 500
UploadDoneStatus(out) == 200

ProjectRow(id, name, pdf, sid) ==
    [id |-> id, name |-> name, pdf_file |-> pdf, total_pages |-> pdf.np,
     chat_session_id |-> sid]

PageRow(id, pid, n, text) ==
    [id |-> id, project_id |-> pid, page_number |-> n, text_content |-> text,
     generated_form_html |-> Absent]

\* for i in range(num_pages): Page(page_number=i + 1, ...)
NewPages(pid, pdf, firstId) ==
    {PageRow(firstId + i - 1, pid, i, ExtractText(pdf, i)) : i \in 1..pdf.np}

CreateReply(c, code, why) ==
    [Reply("create", code, why) EXCEPT !.file = c.file, !.project_id = c.db_project]

\* Lines 65-80: filename check, read, PdfReader, POST /chat/new issued.
CreateStart ==
    /\ last = NoResponse
    /\ running = Idle
    /\ \E up \in Uploads :
         LET me == [Idle EXCEPT !.kind = "create", !.file = up.filename] IN
         IF ~IsPdfName(up.filename)
         THEN /\ last' = CreateReply(me, 400, "not_pdf")
              /\ UNCHANGED inflight
         ELSE IF ~up.content.readable
         THEN /\ last' = CreateReply(me, CreateFailStatus(500), "pdf_parse")
              /\ UNCHANGED inflight
         ELSE /\ CanAccept
              /\ Cardinality(chatSessions) + Creating < MaxProjects
              /\ inflight' = Suspend([me EXCEPT !.pc = "c_new", !.pdf = up.content])
              /\ last' = NoResponse
    /\ UNCHANGED <<dbVars, chatSessions, modelCalls, running, tasks, nBulk, deleted, fence>>

\* Lines 81-103: the chat service's answer, then the Project row is committed.
CreateSession ==
    /\ last = NoResponse
    /\ running = Idle
    /\ \E c \in Suspended, out \in ChatNewOutcomes, dbok \in BOOLEAN :
         /\ c.pc = "c_new"
         /\ inflight' = Resume(c)
         /\ IF out # "ok"
            THEN /\ last' = CreateReply(c, CreateFailStatus(InnerChatStatus(out)), out)
                 /\ UNCHANGED <<dbVars, chatSessions, running>>
            ELSE LET sid == Cardinality(chatSessions) + 1 IN
                 /\ chatSessions' = chatSessions \cup {sid}
                 /\ IF dbok
                    THEN /\ projects' = projects \cup
                                {ProjectRow(nextProjectId, c.file, c.pdf, sid)}
                         /\ nextProjectId' = nextProjectId + 1
                         /\ running' = [c EXCEPT !.pc = "c_pages", !.session = sid,
                                                 !.db_project = nextProjectId]
                         /\ last' = NoResponse
                         /\ UNCHANGED <<pages, nextPageId>>
                    ELSE /\ last' = CreateReply(c, CreateFailStatus(500), "commit_project")
                         /\ UNCHANGED <<dbVars, running>>
    /\ UNCHANGED <<modelCalls, tasks, nBulk, deleted, fence>>

\* Lines 105-139: text extraction, the Page rows are committed, upload issued.
\* The second commit fails when the database does, or when a concurrent
\* delete_project removed the Project row (foreign key pages.project_id).
CreatePages ==
    /\ last = NoResponse
    /\ running.pc = "c_pages"
    /\ running' = Idle
    /\ \E dbok \in BOOLEAN :
         LET pdf == running.pdf
             pid == running.db_project
         IN  IF \E i \in 1..pdf.np : i \in pdf.badText
             THEN /\ last' = CreateReply(running, CreateFailStatus(500), "extract_text")
                  /\ UNCHANGED <<dbVars, inflight>>
             ELSE IF dbok /\ ProjectById(pid) # {}
             THEN /\ pages' = pages \cup NewPages(pid, pdf, nextPageId)
                  /\ nextPageId' = nextPageId + pdf.np
                  /\ inflight' = Suspend([running EXCEPT !.pc = "c_upload"])
                  /\ last' = NoResponse
                  /\ UNCHANGED <<projects, nextProjectId>>
             ELSE /\ last' = CreateReply(running, CreateFailStatus(500), "commit_pages")
                  /\ UNCHANGED <<dbVars, inflight>>
    /\ UNCHANGED <<chatSessions, modelCalls, tasks, nBulk, deleted, fence>>

\* Lines 140-154: the upload's outcome is logged at most; return db_project.
\* What the chat service keeps of an upload is not part of the state.
CreateUpload ==
    /\ last = NoResponse
    /\ running = Idle
    /\ \E c \in Suspended, out \in ChatUploadOutcomes :
         /\ c.pc = "c_upload"
         /\ inflight' = Resume(c)
         /\ last' = CreateReply(c, UploadDoneStatus(out), IF out = "ok" THEN "" ELSE out)
    /\ UNCHANGED <<dbVars, chatSessions, modelCalls, running, tasks, nBulk, deleted, fence>>

\* ---------------------------------------------------- generate_form_fields
\* if page.generated_form_html:  (line 231)
CacheHit(h) == Truthy(h)

\* Outcomes of generate_content_async: it raises, the response has no
\* parts, or the response has a text.
ModelOutcome(kind, text) == [kind |-> kind, text |-> text]
ModelOutcomes ==
    {ModelOutcome("raise", << >>), ModelOutcome("no_parts", << >>)}
        \cup {ModelOutcome("text", t) : t \in Responses}

StoreHtml(pgs, page_id, html) ==
    {IF g.id = page_id THEN [g EXCEPT !.generated_form_html = Some(html)] ELSE g :
        g \in pgs}

\* The pages table after lines 265-278 ran for model outcome `out`: the
\* session flushes an UPDATE of the loaded row only when the assigned value
\* differs from the value it loaded, and only a successful commit persists it.
PagesAfterGenerateEager(pgs, page_id, loaded, out, dbok) ==
    StoreHtml(pgs, page_id, IF out.kind = "text" THEN StripFences(out.text) ELSE << >>)
PagesAfterGenerate(pgs, page_id, loaded, out, dbok) ==
    IF out.kind = "text" /\ dbok /\ Some(StripFences(out.text)) # loaded
    THEN StoreHtml(pgs, page_id, StripFences(out.text))
    ELSE pgs

GenReply(c, code, why) ==
    [Reply("generate", code, why) EXCEPT !.project_id = c.project_id,
                                         !.page_number = c.page_number,
                                         !.task = c.task]

\* Lines 226-232.
GenBegin(pid, n, tk) ==
    LET rows == PageRows(pid, n)
        me == [Idle EXCEPT !.kind = "generate", !.project_id = pid,
                           !.page_number = n, !.task = tk]
    IN  IF rows = {}
        THEN /\ last' = [Reply("generate", 404, "page_not_found") EXCEPT !.task = tk]
             /\ UNCHANGED running
        ELSE LET page == CHOOSE g \in rows : TRUE IN
             IF CacheHit(page.generated_form_html)
             THEN /\ last' = [GenReply(me, 200, "") EXCEPT
                                 !.html = page.generated_form_html,
                                 !.source = "cache"]
                  /\ UNCHANGED running
             ELSE /\ CanAccept
                  /\ modelCalls < MaxModelCalls
                  /\ running' = [me EXCEPT !.pc = "g_project", !.page_id = page.id,
                                           !.loaded = page.generated_form_html]
                  /\ last' = NoResponse

\* A direct POST .../form/generate.
GenStart ==
    /\ last = NoResponse
    /\ running = Idle
    /\ \E pid \in ProjIds, n \in PageNums : GenBegin(pid, n, FALSE)
    /\ UNCHANGED <<dbVars, chatSessions, modelCalls, inflight, tasks, nBulk, deleted, fence>>

\* Lines 234-263: project lookup, single-page extraction, credential check
\* (os.getenv at each call), and the model call is issued.
GenCall ==
    /\ last = NoResponse
    /\ running.pc = "g_project"
    /\ running' = Idle
    /\ LET prj == ProjectById(running.project_id)
           n == running.page_number
       IN  \E apiKey \in BOOLEAN :
           IF prj = {} \/ ~(CHOOSE p \in prj : TRUE).pdf_file.readable
           THEN /\ last' = GenReply(running, 404, "project_not_found")
                /\ UNCHANGED <<modelCalls, inflight>>
           ELSE LET pdf == (CHOOSE p \in prj : TRUE).pdf_file IN
                IF ~(0 < n /\ n <= pdf.np)
                THEN /\ last' = GenReply(running, 404, "out_of_range")
                     /\ UNCHANGED <<modelCalls, inflight>>
                ELSE IF n \in pdf.unwritable
                THEN /\ last' = GenReply(running, 500, "extract_page")
                     /\ UNCHANGED <<modelCalls, inflight>>
                ELSE IF ~apiKey
                THEN /\ last' = GenReply(running, 500, "no_api_key")
                     /\ UNCHANGED <<modelCalls, inflight>>
                ELSE /\ inflight' = Suspend([running EXCEPT !.pc = "g_model"])
                     /\ modelCalls' = modelCalls + 1
                     /\ last' = NoResponse
    /\ UNCHANGED <<dbVars, chatSessions, tasks, nBulk, deleted, fence>>

\* Lines 263-290: the model's answer; on a text the html is stored, committed
\* and refreshed.  The UPDATE or the refresh raises when the row is gone.
GenFinish ==
    /\ last = NoResponse
    /\ running = Idle
    /\ \E c \in Suspended, out \in ModelOutcomes, dbok \in BOOLEAN :
         LET rowThere == \E g \in pages : g.id = c.page_id IN
             /\ c.pc = "g_model"
             /\ inflight' = Resume(c)
             /\ pages' = IF rowThere
                         THEN PagesAfterGenerate(pages, c.page_id, c.loaded, out, dbok)
                         ELSE pages
             /\ last' = IF out.kind = "raise" THEN GenReply(c, 500, "model_error")
                        ELSE IF out.kind = "no_parts" THEN GenReply(c, 500, "no_content")
                        ELSE IF ~dbok THEN GenReply(c, 500, "commit_html")
                        ELSE IF ~rowThere THEN GenReply(c, 500, "stale")
                        ELSE [GenReply(c, 200, "") EXCEPT
                                 !.html = Some(StripFences(out.text)),
                                 !.source = "generated"]
    /\ UNCHANGED <<projects, nextProjectId, nextPageId, chatSessions, modelCalls,
                   running, tasks, nBulk, deleted, fence>>

\* ----------------------------------------------------------- delete_project
\* db.delete(project) with relationship cascade="all, delete-orphan".
DeleteKeepPages(pgs, pid) == pgs
DeleteCascade(pgs, pid) == {g \in pgs : g.project_id # pid}

\* Lines 173-179; the handler is a plain def and runs on a worker thread,
\* whatever the event loop is doing.
DeleteProject ==
    /\ last = NoResponse
    /\ \E pid \in ProjIds, dbok \in BOOLEAN :
         LET reply(code, why) == [Reply("delete", code, why) EXCEPT !.project_id = pid] IN
         IF ProjectById(pid) = {}
         THEN /\ last' = reply(404, "project_not_found")
              /\ UNCHANGED <<projects, pages, deleted, fence>>
         ELSE IF ~dbok
         THEN /\ last' = reply(500, "commit_delete")
              /\ UNCHANGED <<projects, pages, deleted, fence>>
         ELSE /\ projects' = projects \ ProjectById(pid)
              /\ pages' = DeleteCascade(pages, pid)
              /\ deleted' = deleted \cup {pid}
              /\ last' = reply(204, "")
    /\ UNCHANGED <<nextProjectId, nextPageId, chatSessions, modelCalls, inflight,
                   running, tasks, nBulk, fence>>

\* ----------------------------------------------------- get_pdf_page_display
\* except Exception as e: raise HTTPException(500)  (lines 211-213); the
\* HTTPException raised inside the try block is an Exception too.
DisplayErrorStatus(inner) == 500

\* Lines 190-213.
DisplayPage ==
    /\ last = NoResponse
    /\ running = Idle
    /\ \E pid \in ProjIds, n \in PageNums :
         LET reply(code, why, pdf) ==
                 [Reply("display", code, why) EXCEPT !.project_id = pid,
                                                     !.page_number = n, !.np = pdf.np]
             prj == ProjectById(pid)
         IN  IF prj = {} \/ ~(CHOOSE p \in prj : TRUE).pdf_file.readable
             THEN last' = Reply("display", 404, "project_not_found")
             ELSE LET pdf == (CHOOSE p \in prj : TRUE).pdf_file IN
                  IF ~(0 < n /\ n <= pdf.np)
                  THEN last' = reply(DisplayErrorStatus(404), "out_of_range", pdf)
                  ELSE IF n \in pdf.unwritable
                  THEN last' = reply(DisplayErrorStatus(500), "extract_page", pdf)
                  ELSE last' = reply(200, "", pdf)
    /\ UNCHANGED <<dbVars, chatSessions, modelCalls, inflight, running, tasks, nBulk,
                   deleted, fence>>

\* ------------------------------------------------ get_or_generate_form_html
\* if db_page.generated_form_html is not None:  (line 299)
FetchHit(h) == h # Absent

\* Lines 293-306: the stored html is returned, or 404; nothing is generated.
GetFormHtml ==
    /\ last = NoResponse
    /\ running = Idle
    /\ \E pid \in ProjIds, n \in PageNums :
         LET rows == PageRows(pid, n)
             reply(code, why) == [Reply("fetch", code, why) EXCEPT
                                     !.project_id = pid, !.page_number = n]
         IN  IF rows = {}
             THEN last' = reply(404, "page_not_found")
             ELSE LET db_page == CHOOSE g \in rows : TRUE IN
                  IF FetchHit(db_page.generated_form_html)
                  THEN last' = [reply(200, "") EXCEPT
                                   !.html = db_page.generated_form_html]
                  ELSE last' = reply(404, "not_generated")
    /\ UNCHANGED <<dbVars, chatSessions, modelCalls, inflight, running, tasks, nBulk,
                   deleted, fence>>

\* ------------------------------------------- generate_all_forms_for_project
\* for page_num_to_generate in range(1, db_project.total_pages + 1)
BulkPagesShort(total) == 1..(total - 1)
BulkPages(total) == 1..total

\* asyncio.create_task(trigger_page_generation(url, db_project.id, page_num))
Task(pid, n) == [p_id |-> pid, page |-> n]

\* Lines 335-375: one task per page is created, none is awaited.
GenerateAll ==
    /\ last = NoResponse
    /\ running = Idle
    /\ \E pid \in ProjIds :
         LET reply(code, why) == [Reply("bulk", code, why) EXCEPT !.project_id = pid]
             prj == ProjectById(pid)
         IN  IF prj = {}
             THEN /\ last' = reply(404, "project_not_found")
                  /\ UNCHANGED <<tasks, nBulk>>
             ELSE LET total == (CHOOSE p \in prj : TRUE).total_pages IN
                  /\ nBulk < MaxBulk
                  /\ nBulk' = nBulk + 1
                  /\ tasks' = tasks (+) SetToBag({Task(pid, n) : n \in BulkPages(total)})
                  /\ last' = [reply(200, "") EXCEPT
                                 !.np = total,
                                 !.initiated = Cardinality(BulkPages(total)),
                                 !.details = BulkPages(total)]
    /\ UNCHANGED <<dbVars, chatSessions, modelCalls, inflight, running, deleted, fence>>

\* trigger_page_generation: http_client.post(target_url) reaches the
\* generate endpoint of this server (lines 352-361); the status is printed.
TaskPost ==
    /\ last = NoResponse
    /\ running = Idle
    /\ \E t \in BagToSet(tasks) :
         /\ GenBegin(t.p_id, t.page, TRUE)
         /\ tasks' = tasks (-) SetToBag({t})
    /\ UNCHANGED <<dbVars, chatSessions, modelCalls, inflight, nBulk, deleted, fence>>

\* The post raises (line 362): the exception is printed, nothing else happens.
TaskException ==
    /\ last = NoResponse
    /\ running = Idle
    /\ \E t \in BagToSet(tasks) : tasks' = tasks (-) SetToBag({t})
    /\ UNCHANGED <<dbVars, chatSessions, modelCalls, inflight, running, nBulk, last,
                   deleted, fence>>

\* The client has the response.  `last` shows a response only in the state
\* that follows the step returning it; no handler reads it.
Deliver ==
    /\ last # NoResponse
    /\ last' = NoResponse
    /\ UNCHANGED <<dbVars, chatSessions, modelCalls, inflight, running, tasks, nBulk,
                   deleted, fence>>

Next ==
    \/ CreateStart
    \/ CreateSession
    \/ CreatePages
    \/ CreateUpload
    \/ GenStart
    \/ GenCall
    \/ GenFinish
    \/ DeleteProject
    \/ DisplayPage
    \/ GetFormHtml
    \/ GenerateAll
    \/ TaskPost
    \/ TaskException
    \/ Deliver

Spec == Init /\ [][Next]_vars

\* The upload, display and delete endpoints alone.
NextCreate ==
    \/ CreateStart
    \/ CreateSession
    \/ CreatePages
    \/ CreateUpload
    \/ DeleteProject
    \/ DisplayPage
    \/ Deliver

SpecCreate == Init /\ [][NextCreate]_vars

\* Uploads, deletes and direct generate requests.
NextGen ==
    \/ CreateStart
    \/ CreateSession
    \/ CreatePages
    \/ CreateUpload
    \/ GenStart
    \/ GenCall
    \/ GenFinish
    \/ DeleteProject
    \/ Deliver

SpecGen == Init /\ [][NextGen]_vars

\* Uploads, deletes and bulk generation with the requests its tasks post.
NextBulk ==
    \/ CreateStart
    \/ CreateSession
    \/ CreatePages
    \/ CreateUpload
    \/ GenCall
    \/ GenFinish
    \/ DeleteProject
    \/ GenerateAll
    \/ TaskPost
    \/ TaskException
    \/ Deliver

SpecBulk == Init /\ [][NextBulk]_vars

\* ------------------------------------------- fence stripping on its own
\* Characters a response carries between its markers.
BodyChars == {"x", "\n", Bq}
Bodies == UNION {[1..k -> BodyChars] : k \in 0..MaxBody}
\* response.text: an opening marker or none, a body, a closing marker or none
FenceTexts ==
    {o \o b \o c : o \in {FenceHtml, Fence, << >>}, b \in Bodies, c \in {Fence, << >>}}

\* A response with parts has arrived; html_content is not computed yet.
InitFence ==
    /\ projects = {}
    /\ pages = {}
    /\ nextProjectId = 1
    /\ nextPageId = 1
    /\ chatSessions = {}
    /\ modelCalls = 0
    /\ inflight = EmptyBag
    /\ running = Idle
    /\ tasks = EmptyBag
    /\ nBulk = 0
    /\ last = NoResponse
    /\ deleted = {}
    /\ fence \in {[text |-> t, html_content |-> Absent] : t \in FenceTexts}

\* Lines 266-273: html_content = response.text, markers stripped, trimmed;
\* it is the value line 276 stores and line 280 returns.
StripResponse ==
    /\ fence.html_content = Absent
    /\ fence' = [fence EXCEPT !.html_content = Some(StripFences(fence.text))]
    /\ UNCHANGED <<dbVars, chatSessions, modelCalls, inflight, running, tasks, nBulk,
                   last, deleted>>

NextFence == StripResponse

SpecFence == InitFence /\ [][NextFence]_vars

\* ================================================================ claims
\* ---------------------------------------------------------------- C1
\* C1: once a generation has stored html for a page, every later
\* generate_form_fields call for that page is answered from the cache with no
\* further model call, whatever text counted as a success (the empty text
\* included): a call goes past the cache check, on its way to the model, only
\* when the row it loaded has no stored html.
C1_StoredHtmlIsServedFromCache ==
    running.pc = "g_project" => running.loaded = Absent

\* ---------------------------------------------------------------- C2
\* C2: the generated html of a page is written at most once: once a row's
\* generated_form_html is present, no step changes it while the row exists.
C2_HtmlWrittenAtMostOnce ==
    [][\A g \in pages : g.generated_form_html # Absent =>
          \A h \in pages' : h.id = g.id =>
              h.generated_form_html = g.generated_form_html]_vars

\* ---------------------------------------------------------------- C3
\* Some row's generated html differs after the step.
HtmlChanged ==
    \E g \in pages, h \in pages' :
        h.id = g.id /\ h.generated_form_html # g.generated_form_html

\* C3: a generate_form_fields call that ends in an error persists nothing:
\* the step that returns the error leaves the pages table as it was, and the
\* only steps that change a row's generated html are those returning
\* 200/source=generated; so a page whose call failed is still without html.
C3_FailedGenerateLeavesHtmlAbsent ==
    [][/\ (last'.kind = "generate" /\ last'.status # 200) => pages' = pages
       /\ HtmlChanged => /\ last'.kind = "generate"
                         /\ last'.status = 200
                         /\ last'.source = "generated"]_vars

\* A call for a page without html came back with the model call having
\* raised, and the page is still without html.
C3_Witness ==
    /\ last.kind = "generate"
    /\ last.status = 500
    /\ last.fail = "model_error"
    /\ \E g \in PageRows(last.project_id, last.page_number) :
           g.generated_form_html = Absent

\* ---------------------------------------------------------------- C4
\* The create_project call that committed project `pid` has finished its
\* database work (it returned, or it is at the upload after the second commit).
CreateFinished(pid) == ~(running.pc = "c_pages" /\ running.db_project = pid)

\* C4: every stored project whose create_project call has finished has
\* exactly total_pages Page rows, numbered 1..total_pages, each once.
C4_PagesMatchTotalPages ==
    \A p \in projects : CreateFinished(p.id) =>
        /\ Cardinality(PagesOf(p.id)) = p.total_pages
        /\ \A n \in 1..p.total_pages : Cardinality(PageRows(p.id, n)) = 1

\* ---------------------------------------------------------------- C5
\* C5: for an existing project whose PDF has N pages, get_pdf_page_display
\* answers 200 for a page 1..N that the codec can emit, and 404 for every n
\* outside 1..N.
C5_DisplayOutOfRangeIsNotFound ==
    (last.kind = "display" /\ last.np > 0) =>
        LET pdf == (CHOOSE p \in ProjectById(last.project_id) : TRUE).pdf_file IN
        IF last.page_number \in 1..last.np
        THEN last.page_number \notin pdf.unwritable => last.status = 200
        ELSE last.status = 404

\* ---------------------------------------------------------------- C6
\* C6: when the chat-session creation of create_project fails (transport
\* error, error status, undecodable body, no session id) the call returns a
\* 5xx status and has written nothing: the step leaves both tables as they
\* were, and no Project row ever exists without a session the chat service
\* opened.
C6_ChatSessionFailureAborts ==
    [][/\ (last'.kind = "create" /\ last'.fail \in ChatNewFailures) =>
              /\ last'.status \in 500..599
              /\ projects' = projects
              /\ pages' = pages
       /\ \A p \in projects' : p.chat_session_id \in chatSessions']_vars

\* The chat service answered 404 to POST /chat/new: 5xx to the caller, no row.
C6_Witness ==
    /\ last.kind = "create"
    /\ last.fail = "status_404"
    /\ last.status \in 500..599
    /\ projects = {}
    /\ pages = {}

\* ---------------------------------------------------------------- C7
\* C7: when the chat file upload of create_project fails in any way, the
\* call still returns success with the project, and the step leaves the
\* Project row and its Page rows as they were.
C7_UploadFailureIsSwallowed ==
    [][(last'.kind = "create" /\ last'.fail \in ChatUploadFailures) =>
          /\ last'.status = 200
          /\ last'.project_id # 0
          /\ projects' = projects
          /\ pages' = pages]_vars

\* The upload met a transport error; the caller has a 200 and the project is
\* stored with both of its pages.
C7_Witness ==
    /\ last.kind = "create"
    /\ last.fail = "upload_request_error"
    /\ last.status = 200
    /\ ProjectById(last.project_id) # {}
    /\ {g.page_number : g \in PagesOf(last.project_id)} = 1..2

\* ---------------------------------------------------------------- C8
\* The name does not end in ".pdf", letter case aside.
NotDotPdf(name) ==
    \/ Len(name) < 4
    \/ Lower(SubSeq(name, Len(name) - 3, Len(name))) # <<".", "p", "d", "f">>

\* C8: create_project with a file name that does not end in ".pdf" (case
\* aside) returns 400 in a step that writes no table and calls no chat
\* service, and no create_project call for such a name gets any further.
C8_NonPdfRejectedBeforeAnyWrite ==
    [][/\ (last'.kind = "create" /\ NotDotPdf(last'.file)) =>
              /\ last'.status = 400
              /\ UNCHANGED <<dbVars, chatSessions, inflight, running>>
       /\ \A c \in BagToSet(inflight') \cup {running'} :
              c.kind = "create" => ~NotDotPdf(c.file)]_vars

\* "a.txt" was uploaded and refused; nothing is stored, no session opened.
C8_Witness ==
    /\ last.kind = "create"
    /\ last.file = <<"a", ".", "t", "x", "t">>
    /\ last.status = 400
    /\ projects = {}
    /\ chatSessions = {}

\* ---------------------------------------------------------------- C9
\* C9: for an existing project with total_pages = N,
\* generate_all_forms_for_project creates exactly one task per page 1..N and
\* returns generation_tasks_initiated = N in the same step: no task has run,
\* no generation has started and no row has changed when the count is fixed.
C9_BulkSchedulesOneTaskPerPage ==
    [][(last'.kind = "bulk" /\ last'.status = 200) =>
          LET pid == last'.project_id
              N == (CHOOSE p \in ProjectById(pid) : TRUE).total_pages
          IN  /\ last'.initiated = N
              /\ last'.details = 1..N
              /\ tasks' = tasks (+) SetToBag({[p_id |-> pid, page |-> n] : n \in 1..N})
              /\ UNCHANGED <<dbVars, modelCalls, inflight, running>>]_vars

\* A dispatch for a two-page project returned 2 with both tasks still pending.
C9_Witness ==
    /\ last.kind = "bulk"
    /\ last.status = 200
    /\ last.initiated = 2
    /\ BagCardinality(tasks) >= 2
    /\ modelCalls = 0

\* ---------------------------------------------------------------- C10
\* C10: after delete_project succeeded for a project, the project is gone
\* and no Page row belongs to it, in every later state, also when a
\* generate_form_fields call for one of its pages was waiting on the model.
C10_DeletedProjectHasNoRows ==
    \A pid \in deleted : ProjectById(pid) = {} /\ PagesOf(pid) = {}

\* A generate call that was waiting on the model when its project was
\* deleted has come back; its row is gone.
C10_Witness ==
    /\ last.kind = "generate"
    /\ last.status = 500
    /\ last.fail = "stale"
    /\ last.project_id \in deleted
    /\ PagesOf(last.project_id) = {}

\* ---------------------------------------------------------------- C11
\* C11: for an existing page, get_or_generate_form_html answers 404 while
\* the page has no stored html and otherwise 200 with exactly the stored
\* html, and it treats a stored value as generated exactly when
\* generate_form_fields does (that is, when generate would answer from the
\* cache).
C11_FetchAgreesWithGenerate ==
    (last.kind = "fetch" /\ last.fail # "page_not_found") =>
        LET h == (CHOOSE g \in PageRows(last.project_id, last.page_number) : TRUE)
                     .generated_form_html
        IN  /\ h = Absent => last.status = 404
            /\ h # Absent => last.status = 200 /\ last.html = h
            /\ last.status = 200 <=> CacheHit(h)

\* ---------------------------------------------------------------- C12
\* The text begins with the html marker or the bare marker, ends with the
\* closing marker, and the two do not overlap.
OpenLen(text) == IF StartsWith(text, FenceHtml) THEN 7 ELSE 3
Fenced(text) ==
    /\ StartsWith(text, Fence)
    /\ EndsWith(text, Fence)
    /\ Len(text) >= OpenLen(text) + 3
\* What lies between the opening and the closing marker.
Between(text) == SubSeq(text, OpenLen(text) + 1, Len(text) - 3)

\* C12: for a response text that begins with the html marker (or the bare
\* marker) and ends with the closing marker, the html computed for storing
\* and returning is the text between the two markers with the surrounding
\* whitespace trimmed: one opening and one closing marker are removed and
\* nothing else of the content.
C12_OneMarkerPairRemoved ==
    (fence.html_content # Absent /\ Fenced(fence.text)) =>
        fence.html_content = Some(Strip(Between(fence.text)))
====
